---- MODULE Spec2Model ----
(***************************************************************************)
(* IK/FK snapping core of rig_ui.py: the rotation minimizer                *)
(* (tail_distance, find_min_range, ternarySearch, correct_rotation), the   *)
(* space converter, the pose applicator, the pole resolver and the chain   *)
(* matchers.                                                               *)
(*                                                                         *)
(* Angles are integers in units of pi/PI radians, so that pi/8 and every   *)
(* third taken by ternarySearch on a pi/4 bracket are exact.               *)
(***************************************************************************)
EXTENDS Integers, Sequences, FiniteSets, TLC

VARIABLES
    bones,  \* pose bones of the armature: name -> bone record
    pc,     \* position of the running call
    call,   \* the call being run and what the host supplies to it
    fm,     \* locals of find_min_range
    ts,     \* locals of ternarySearch
    cr,     \* locals of correct_rotation
    cv,     \* locals of a get_pose_matrix_in_other_space call
    pt,     \* locals of match_pole_target
    log,    \* the writes made to pose bones so far, in order
    mt      \* locals of the chain matcher that is running

vars == <<bones, pc, call, fm, ts, cr, cv, pt, log, mt>>

----------------------------------------------------------------------------
(* Numbers *)

\* math.pi in angle units
PI == 11664

\* default delta of find_min_range: pi/8
Delta == PI \div 8

\* the tolerance 0.1 correct_rotation passes to ternarySearch: widths are
\* whole units, so width < 0.1 rad (371.28 units) iff width < 372
Precision == 372

Abs(x) == IF x < 0 THEN -x ELSE x

Min3(a, b, c) == IF a <= b /\ a <= c THEN a ELSE IF b <= c THEN b ELSE c

----------------------------------------------------------------------------
(* Rotation fields of a pose bone.  A bone keeps one field per             *)
(* representation; rotation_mode selects the one in use.  Rotations are    *)
(* about the bone's Z axis:                                                *)
(*   rotation_quaternion  t in 0..4pi-1: the quaternion                    *)
(*                        (cos(t/2), sin(t/2) * Z)                         *)
(*   rotation_axis_angle  [angle, axis]: angle about axis * Z, axis = +-1  *)
(*   rotation_euler       the Z angle                                      *)

Modes == {"QUATERNION", "AXIS_ANGLE", "XYZ"}

QuatOfAxisAngle(aa) == (aa.axis * aa.angle) % (4 * PI)

AxisAngleOfQuat(t) ==
    IF t <= 2 * PI THEN [angle |-> t, axis |-> 1]
                   ELSE [angle |-> 4 * PI - t, axis |-> -1]

QuatOfEuler(e) == e % (4 * PI)

EulerOfQuat(t) ==
    LET r == t % (2 * PI) IN IF r > PI THEN r - 2 * PI ELSE r

\* The value of the field in use, as a quaternion
QuatOfBone(b) ==
    CASE b.rotation_mode = "QUATERNION" -> b.rotation_quaternion
      [] b.rotation_mode = "AXIS_ANGLE" -> QuatOfAxisAngle(b.rotation_axis_angle)
      [] OTHER                          -> QuatOfEuler(b.rotation_euler)

\* bone.rotation_mode = mode: the host converts the field in use into the
\* field of the new mode and leaves the other fields as they are; assigning
\* the mode the bone already has changes nothing.
rotation_mode_set(b, mode) ==
    IF mode = b.rotation_mode THEN b
    ELSE CASE mode = "QUATERNION" ->
                [b EXCEPT !.rotation_mode = mode,
                          !.rotation_quaternion = QuatOfBone(b)]
           [] mode = "AXIS_ANGLE" ->
                [b EXCEPT !.rotation_mode = mode,
                          !.rotation_axis_angle = AxisAngleOfQuat(QuatOfBone(b))]
           [] OTHER ->
                [b EXCEPT !.rotation_mode = mode,
                          !.rotation_euler = EulerOfQuat(QuatOfBone(b))]

----------------------------------------------------------------------------
(* Vectors and matrices.  A 4x4 transform matrix with last row (0,0,0,1)   *)
(* is [m |-> its 3x3 part as rows, t |-> its translation column].  All     *)
(* entries are integers; a matrix that is inverted has determinant +-1.    *)

Dot(u, v) == u[1] * v[1] + u[2] * v[2] + u[3] * v[3]

Cross(u, v) ==
    <<u[2] * v[3] - u[3] * v[2], u[3] * v[1] - u[1] * v[3], u[1] * v[2] - u[2] * v[1]>>

VAdd(u, v) == <<u[1] + v[1], u[2] + v[2], u[3] + v[3]>>

VSub(u, v) == <<u[1] - v[1], u[2] - v[2], u[3] - v[3]>>

VScale(k, v) == <<k * v[1], k * v[2], k * v[3]>>

VDiv(v, k) == <<v[1] \div k, v[2] \div k, v[3] \div k>>

Col(m, j) == <<m[1][j], m[2][j], m[3][j]>>

MatVec(m, v) == <<Dot(m[1], v), Dot(m[2], v), Dot(m[3], v)>>

Mul3(a, b) ==
    <<<<Dot(a[1], Col(b, 1)), Dot(a[1], Col(b, 2)), Dot(a[1], Col(b, 3))>>,
      <<Dot(a[2], Col(b, 1)), Dot(a[2], Col(b, 2)), Dot(a[2], Col(b, 3))>>,
      <<Dot(a[3], Col(b, 1)), Dot(a[3], Col(b, 2)), Dot(a[3], Col(b, 3))>>>>

Det3(m) == Dot(m[1], Cross(m[2], m[3]))

\* the matrix whose columns are c1, c2, c3
OfColumns(c1, c2, c3) ==
    <<<<c1[1], c2[1], c3[1]>>, <<c1[2], c2[2], c3[2]>>, <<c1[3], c2[3], c3[3]>>>>

\* the adjugate: its columns are the cross products of the rows
Adj3(m) == OfColumns(Cross(m[2], m[3]), Cross(m[3], m[1]), Cross(m[1], m[2]))

I3 == <<<<1, 0, 0>>, <<0, 1, 0>>, <<0, 0, 1>>>>

Zero3 == <<0, 0, 0>>

\* Matrix()
Identity == [m |-> I3, t |-> Zero3]

\* Matrix.Translation(v)
Translation(v) == [m |-> I3, t |-> v]

\* a * b
MatMul(a, b) == [m |-> Mul3(a.m, b.m), t |-> VAdd(MatVec(a.m, b.t), a.t)]

\* the transform with linear part im that undoes the translation t
Undo(im, t) == [m |-> im, t |-> VScale(-1, MatVec(im, t))]

\* adj scaled by d
Scale3(d, adj) == <<VScale(d, adj[1]), VScale(d, adj[2]), VScale(d, adj[3])>>

\* a.inverted(), for a determinant of 1 or -1
Inverted(a) == Undo(Scale3(Det3(a.m), Adj3(a.m)), a.t)

Invertible(a) == Det3(a.m) \in {1, -1}

\* mat.to_translation()
to_translation(mat) == mat.t

\* rotation by k quarter turns about Z
RotZ(k) ==
    CASE k % 4 = 0 -> I3
      [] k % 4 = 1 -> <<<<0, -1, 0>>, <<1, 0, 0>>, <<0, 0, 1>>>>
      [] k % 4 = 2 -> <<<<-1, 0, 0>>, <<0, -1, 0>>, <<0, 0, 1>>>>
      [] OTHER     -> <<<<0, 1, 0>>, <<-1, 0, 0>>, <<0, 0, 1>>>>

\* mat.to_scale(): the lengths of the columns, for a matrix that is a
\* quarter-turn rotation times a diagonal scale
to_scale(mat) ==
    <<Abs(mat.m[1][1]) + Abs(mat.m[2][1]) + Abs(mat.m[3][1]),
      Abs(mat.m[1][2]) + Abs(mat.m[2][2]) + Abs(mat.m[3][2]),
      Abs(mat.m[1][3]) + Abs(mat.m[2][3]) + Abs(mat.m[3][3])>>

\* the quarter turns about Z of the rotation of such a matrix
QuarterTurns(mat) ==
    CASE mat.m[1][1] > 0 -> 0
      [] mat.m[2][1] > 0 -> 1
      [] mat.m[1][1] < 0 -> 2
      [] OTHER           -> 3

\* mat.to_quaternion(): the unit quaternion with w >= 0
to_quaternion(mat) ==
    LET k == QuarterTurns(mat) IN
    IF k = 3 THEN 4 * PI - PI \div 2 ELSE k * (PI \div 2)

\* the rotation matrix of a quaternion that is a whole number of quarter turns
MatOfQuat(t) == RotZ((t % (2 * PI)) \div (PI \div 2))

\* q * v
QuatRotate(t, v) == MatVec(MatOfQuat(t), v)

----------------------------------------------------------------------------
(* Pose bones.  Besides the rotation fields a bone has                     *)
(*   location, scale      its other two channels                           *)
(*   rest                 bone.matrix_local, the rest matrix               *)
(*   parent               the name of its parent, "" for none              *)
(*   use_local_location   bone.use_local_location                          *)
(*   matrix               its armature-space pose matrix, kept by the host *)
(*   solved               TRUE when the host's IK solver sets the matrix   *)
(*   length               bone.length                                      *)
(*   props                its custom attributes: key -> value              *)

NoProps == [k \in {} |-> 0]

PlainBone ==
    [rotation_mode       |-> "QUATERNION",
     rotation_quaternion |-> 0,
     rotation_axis_angle |-> [angle |-> 0, axis |-> 1],
     rotation_euler      |-> 0,
     location            |-> Zero3,
     scale               |-> <<1, 1, 1>>,
     rest                |-> Identity,
     parent              |-> "",
     use_local_location  |-> TRUE,
     matrix              |-> Identity,
     solved              |-> FALSE,
     length              |-> 1,
     props               |-> NoProps]

----------------------------------------------------------------------------
(* Space converter *)

\* a faulty variant: the parent's pose is not inverted
get_pose_matrix_in_other_space_par_mat(B, mat, pb) ==
    LET rest_inv == Inverted(B[pb].rest)
        par_mat  == IF B[pb].parent # "" THEN B[B[pb].parent].matrix ELSE Identity
        par_rest == IF B[pb].parent # "" THEN B[B[pb].parent].rest ELSE Identity
    IN  MatMul(rest_inv, MatMul(par_rest, MatMul(par_mat, mat)))

\* get_pose_matrix_in_other_space(mat, pose_bone), in the armature B
get_pose_matrix_in_other_space(B, mat, pb) ==
    LET rest     == B[pb].rest
        rest_inv == Inverted(rest)
        par_mat  == IF B[pb].parent # "" THEN B[B[pb].parent].matrix ELSE Identity
        par_inv  == IF B[pb].parent # "" THEN Inverted(par_mat) ELSE Identity
        par_rest == IF B[pb].parent # "" THEN B[B[pb].parent].rest ELSE Identity
    IN  MatMul(rest_inv, MatMul(par_rest, MatMul(par_inv, mat)))

\* get_local_pose_matrix(pose_bone)
get_local_pose_matrix(B, pb) == get_pose_matrix_in_other_space(B, B[pb].matrix, pb)

\* The host's evaluation of a bone: the armature-space matrix of a bone
\* whose local matrix is M is parentPose * parentRest^-1 * rest * M.
ArmatureImage(B, pb, M) ==
    IF B[pb].parent = "" THEN MatMul(B[pb].rest, M)
    ELSE MatMul(B[B[pb].parent].matrix,
                MatMul(Inverted(B[B[pb].parent].rest), MatMul(B[pb].rest, M)))

----------------------------------------------------------------------------
(* Pose applicator *)

\* the q of set_pose_translation: (par_rest.inverted() * rest).to_quaternion()
RestDelta(B, pb) ==
    LET rest     == B[pb].rest
        par_rest == IF B[pb].parent # "" THEN B[B[pb].parent].rest ELSE Identity
    IN  to_quaternion(MatMul(Inverted(par_rest), rest))

\* set_pose_translation(pose_bone, mat)
set_pose_translation(B, pb, mat) ==
    IF B[pb].use_local_location
    THEN [B EXCEPT ![pb].location = to_translation(mat)]
    ELSE [B EXCEPT ![pb].location = QuatRotate(RestDelta(B, pb), to_translation(mat))]

\* a faulty variant: the rotation is always stored as a quaternion
set_pose_rotation_as_quaternion(B, pb, mat) ==
    [B EXCEPT ![pb].rotation_mode = "QUATERNION",
              ![pb].rotation_quaternion = to_quaternion(mat)]

\* set_pose_rotation(pose_bone, mat)
set_pose_rotation(B, pb, mat) ==
    LET q == to_quaternion(mat) IN
    CASE B[pb].rotation_mode = "QUATERNION" ->
            [B EXCEPT ![pb].rotation_quaternion = q]
      [] B[pb].rotation_mode = "AXIS_ANGLE" ->
            [B EXCEPT ![pb].rotation_axis_angle = AxisAngleOfQuat(q)]
      [] OTHER ->
            [B EXCEPT ![pb].rotation_euler = EulerOfQuat(q)]

\* set_pose_scale(pose_bone, mat)
set_pose_scale(B, pb, mat) == [B EXCEPT ![pb].scale = to_scale(mat)]

----------------------------------------------------------------------------
(* The host's evaluation of the armature (bpy.ops.object.mode_set to       *)
(* OBJECT and back to POSE): every bone that is not set by the IK solver   *)
(* gets the armature-space image of its channels, location * rotation *    *)
(* scale.  A bone without use_local_location stores its location rotated   *)
(* by RestDelta, which the host undoes.                                    *)

\* rot * diag(scale)
ScaledColumns(rot, scale) ==
    <<<<rot[1][1] * scale[1], rot[1][2] * scale[2], rot[1][3] * scale[3]>>,
      <<rot[2][1] * scale[1], rot[2][2] * scale[2], rot[2][3] * scale[3]>>,
      <<rot[3][1] * scale[1], rot[3][2] * scale[2], rot[3][3] * scale[3]>>>>

ChannelMatrix(B, pb) ==
    [m |-> ScaledColumns(MatOfQuat(QuatOfBone(B[pb])), B[pb].scale),
     t |-> IF B[pb].use_local_location THEN B[pb].location
           ELSE QuatRotate((4 * PI - RestDelta(B, pb)) % (4 * PI), B[pb].location)]

RECURSIVE PoseMatrix(_, _)
PoseMatrix(B, pb) ==
    IF B[pb].solved THEN B[pb].matrix
    ELSE LET M == ChannelMatrix(B, pb) IN
         IF B[pb].parent = "" THEN MatMul(B[pb].rest, M)
         ELSE MatMul(PoseMatrix(B, B[pb].parent),
                     MatMul(Inverted(B[B[pb].parent].rest), MatMul(B[pb].rest, M)))

HostUpdate(B) == [n \in DOMAIN B |-> [B[n] EXCEPT !.matrix = PoseMatrix(B, n)]]

\* match_pose_translation(pose_bone, target_bone)
match_pose_translation(B, pose_bone, target_bone) ==
    HostUpdate(set_pose_translation(B, pose_bone,
        get_pose_matrix_in_other_space(B, B[target_bone].matrix, pose_bone)))

\* match_pose_rotation(pose_bone, target_bone)
match_pose_rotation(B, pose_bone, target_bone) ==
    HostUpdate(set_pose_rotation(B, pose_bone,
        get_pose_matrix_in_other_space(B, B[target_bone].matrix, pose_bone)))

\* match_pose_scale(pose_bone, target_bone)
match_pose_scale(B, pose_bone, target_bone) ==
    HostUpdate(set_pose_scale(B, pose_bone,
        get_pose_matrix_in_other_space(B, B[target_bone].matrix, pose_bone)))

\* pose_bone.vector: from the head of the bone to its tail
BoneVector(b) == MatVec(b.matrix.m, <<0, b.length, 0>>)

----------------------------------------------------------------------------
(* The objective: what the host reports as the distance between the two    *)
(* tails once the joint has been given an angle.  It is a function of the  *)
(* angle asked for, drawn from a small family:                             *)
(*   inc   strictly increasing          dec   strictly decreasing          *)
(*   vee   strictly unimodal, minimum at x0, slopes sl (left), sr (right)  *)
(*   flat  constant                                                        *)

ObjBase == 16 * PI

Objective(obj, x) ==
    CASE obj.kind = "inc"  -> ObjBase + x
      [] obj.kind = "dec"  -> ObjBase - x
      [] obj.kind = "vee"  -> IF x < obj.x0 THEN obj.sl * (obj.x0 - x)
                                            ELSE obj.sr * (x - obj.x0)
      [] OTHER             -> 0

----------------------------------------------------------------------------
(* tail_distance(angle, bone_ik, bone_fk): the joint after the call and    *)
(* the distance returned.  ik and fk name the two bones: a bone's tail is  *)
(* at distance 0 from itself whatever the angle.                           *)

tail_distance_bone(angle, b) ==
    LET rot_mod == b.rotation_mode
        b1 == IF rot_mod # "AXIS_ANGLE" THEN rotation_mode_set(b, "AXIS_ANGLE") ELSE b
        b2 == [b1 EXCEPT !.rotation_axis_angle.angle = angle]
    IN  rotation_mode_set(b2, rot_mod)

tail_distance_dv(angle, ik, fk) ==
    IF ik = fk THEN 0 ELSE Objective(call.obj, angle)

----------------------------------------------------------------------------
(* find_min_range(bone_ik, bone_fk) *)

\* a faulty variant: a window of 4*pi on each side
InWindowWide(angle, start_angle) ==
    angle > start_angle - 4 * PI /\ angle < start_angle + 4 * PI

\* The loop test.  The code adds delta 16 times in floating point and
\* compares with start_angle + 2*pi: call.roundoff is the sign of the
\* rounding error of that sum (0: the two are equal, the exact result).
InWindow(angle, start_angle) ==
    /\ angle > start_angle - 2 * PI
    /\ \/ angle < start_angle + 2 * PI
       \/ angle = start_angle + 2 * PI /\ call.roundoff < 0

\* min((l_dist, c_dist, r_dist)) == c_dist
IsBracket(l_dist, c_dist, r_dist) == Min3(l_dist, c_dist, r_dist) = c_dist

\* the next scan position
NextAngle(angle, delta) == angle + delta

\* a faulty variant: the last bracket looked at is returned when the window is exhausted
FallThroughBracket(f) ==
    [f EXCEPT !.state = "bracket", !.lo = f.angle - 2 * Delta, !.hi = f.angle]

\* leaving the while loop without a return: the function returns None
FallThrough(f) == [f EXCEPT !.state = "none"]

FmrEnter ==
    /\ pc = "cr_call"
    /\ LET b       == bones[cr.bone_ik]
           rot_mod == b.rotation_mode
           b1      == IF rot_mod # "AXIS_ANGLE"
                      THEN rotation_mode_set(b, "AXIS_ANGLE") ELSE b
           start_angle == b1.rotation_axis_angle.angle
       IN  /\ bones' = [bones EXCEPT ![cr.bone_ik] = b1]
           /\ fm' = [rot_mod |-> rot_mod, start_angle |-> start_angle,
                     angle |-> start_angle, positions |-> 0,
                     state |-> "scanning", lo |-> 0, hi |-> 0]
    /\ pc' = "fmr_loop"
    /\ UNCHANGED <<call, ts, cr>>
    /\ UNCHANGED <<cv, pt, log, mt>>

FmrScan ==
    /\ pc = "fmr_loop"
    /\ InWindow(fm.angle, fm.start_angle)
    /\ LET ik == cr.bone_ik
           fk == cr.bone_fk
           angle  == fm.angle
           l_dist == tail_distance_dv(angle - Delta, ik, fk)
           bl     == tail_distance_bone(angle - Delta, bones[ik])
           c_dist == tail_distance_dv(angle, ik, fk)
           bc     == tail_distance_bone(angle, bl)
           r_dist == tail_distance_dv(angle + Delta, ik, fk)
           br     == tail_distance_bone(angle + Delta, bc)
       IN  IF IsBracket(l_dist, c_dist, r_dist)
           THEN /\ bones' = [bones EXCEPT ![ik] = rotation_mode_set(br, fm.rot_mod)]
                /\ fm' = [fm EXCEPT !.state = "bracket",
                                    !.positions = @ + 1,
                                    !.lo = angle - Delta, !.hi = angle + Delta]
                /\ pc' = "cr_subscript"
           ELSE /\ bones' = [bones EXCEPT ![ik] = br]
                /\ fm' = [fm EXCEPT !.angle = NextAngle(angle, Delta),
                                    !.positions = @ + 1]
                /\ pc' = "fmr_loop"
    /\ UNCHANGED <<call, ts, cr>>
    /\ UNCHANGED <<cv, pt, log, mt>>

FmrExhaust ==
    /\ pc = "fmr_loop"
    /\ ~InWindow(fm.angle, fm.start_angle)
    /\ fm' = FallThrough(fm)
    /\ pc' = "cr_subscript"
    /\ UNCHANGED <<bones, call, ts, cr>>
    /\ UNCHANGED <<cv, pt, log, mt>>

----------------------------------------------------------------------------
(* ternarySearch(f, left, right, bone_ik, bone_fk, absolutePrecision) *)

\* (right - left)/3 added to an endpoint, the sum rounded to the nearest
\* representable value (a third is never halfway between two of them)
Third(width) == (2 * width + 3) \div 6

leftThird(left, right) == left + Third(right - left)

rightThird(left, right) == right - Third(right - left)

\* a faulty variant: the comparison reversed (the search for a maximum)
NarrowReversed(fl, fr, left, right) ==
    IF fl < fr THEN <<leftThird(left, right), right>>
               ELSE <<left, rightThird(left, right)>>

\* if f(leftThird) > f(rightThird): left = leftThird, else: right = rightThird
Narrow(fl, fr, left, right) ==
    IF fl > fr THEN <<leftThird(left, right), right>>
               ELSE <<left, rightThird(left, right)>>

\* abs(right - left) < absolutePrecision
Converged(left, right, absolutePrecision) == Abs(right - left) < absolutePrecision

Midpoint(left, right) == (left + right) \div 2

TsStep ==
    /\ pc = "ts_loop"
    /\ ~Converged(ts.left, ts.right, ts.prec)
    /\ LET ik == cr.bone_ik
           fk == cr.bone_fk
           lt == leftThird(ts.left, ts.right)
           rt == rightThird(ts.left, ts.right)
           fl == tail_distance_dv(lt, ik, fk)
           b1 == tail_distance_bone(lt, bones[ik])
           fr == tail_distance_dv(rt, ik, fk)
           b2 == tail_distance_bone(rt, b1)
           nb == Narrow(fl, fr, ts.left, ts.right)
       IN  /\ bones' = [bones EXCEPT ![ik] = b2]
           /\ ts' = [ts EXCEPT !.left = nb[1], !.right = nb[2],
                               !.evals = @ + 2, !.iters = @ + 1]
    /\ UNCHANGED <<pc, call, fm, cr>>
    /\ UNCHANGED <<cv, pt, log, mt>>

TsReturn ==
    /\ pc = "ts_loop"
    /\ Converged(ts.left, ts.right, ts.prec)
    /\ ts' = [ts EXCEPT !.state = "returned", !.ret = Midpoint(ts.left, ts.right)]
    /\ pc' = IF call.op = "ternarySearch" THEN "done" ELSE "cr_write"
    /\ UNCHANGED <<bones, call, fm, cr>>
    /\ UNCHANGED <<cv, pt, log, mt>>

----------------------------------------------------------------------------
(* correct_rotation(bone_ik, bone_fk) *)

\* alfarange[0], alfarange[1] on the None find_min_range returned: TypeError
CrRaise ==
    /\ pc = "cr_subscript"
    /\ fm.state = "none"
    /\ pc' = "raised"
    /\ cr' = [cr EXCEPT !.outcome = "TypeError"]
    /\ UNCHANGED <<bones, call, fm, ts>>
    /\ UNCHANGED <<cv, pt, log, mt>>

CrTernary ==
    /\ pc = "cr_subscript"
    /\ fm.state = "bracket"
    /\ ts' = [left |-> fm.lo, right |-> fm.hi, prec |-> Precision,
              evals |-> 0, iters |-> 0, state |-> "running", ret |-> 0]
    /\ pc' = "ts_loop"
    /\ UNCHANGED <<bones, call, fm, cr>>
    /\ UNCHANGED <<cv, pt, log, mt>>

\* a faulty variant: the joint is left in AXIS_ANGLE mode
write_alfamin_no_restore(b, alfamin) ==
    [rotation_mode_set(b, "AXIS_ANGLE") EXCEPT !.rotation_axis_angle.angle = alfamin]

\* lines 216-220: the resolved angle is written in AXIS_ANGLE mode and the
\* mode the joint has at that point is put back
write_alfamin(b, alfamin) ==
    LET rot_mod == b.rotation_mode
        b1 == IF rot_mod # "AXIS_ANGLE" THEN rotation_mode_set(b, "AXIS_ANGLE") ELSE b
        b2 == [b1 EXCEPT !.rotation_axis_angle.angle = alfamin]
    IN  rotation_mode_set(b2, rot_mod)

CrWrite ==
    /\ pc = "cr_write"
    /\ bones' = [bones EXCEPT ![cr.bone_ik] = write_alfamin(@, ts.ret)]
    /\ cr' = [cr EXCEPT !.alfamin = ts.ret, !.wrote = TRUE, !.outcome = "returned"]
    /\ pc' = "done"
    /\ UNCHANGED <<call, fm, ts>>
    /\ UNCHANGED <<cv, pt, log, mt>>

----------------------------------------------------------------------------
(* Math utility functions *)

\* the tv of perpendicular_vector: a vector that is not aligned with v
HelperAxis(v) == IF Abs(v[1]) < Abs(v[2]) THEN <<1, 0, 0>> ELSE <<0, 1, 0>>

\* perpendicular_vector(v)
perpendicular_vector(v) == Cross(v, HelperAxis(v))

\* the square root of a perfect square
ISqrt(n) == CHOOSE r \in 0..n : r * r = n

\* v.length
VLength(v) == ISqrt(Dot(v, v))

\* a faulty variant: the vector is not normalized
TimesUnnormalized(v, length) == VScale(length, v)

\* v.normalized() * length
NormalizedTimes(v, length) == VDiv(VScale(length, v), VLength(v))

\* rotation_difference(mat1, mat2): acos(clamp(q1.dot(q2))) * 2, where
\* q1.dot(q2) = cos((q1 - q2) / 2), folded into [0, pi]
rotation_difference(mat1, mat2) ==
    LET q1 == to_quaternion(mat1)
        q2 == to_quaternion(mat2)
        d  == Abs(q1 - q2)
        angle == IF d > 2 * PI THEN 4 * PI - d ELSE d
    IN  IF angle > PI THEN -angle + 2 * PI ELSE angle

\* cosine and sine of a whole number of quarter turns
Cos4(angle) ==
    LET k == (angle % (2 * PI)) \div (PI \div 2) IN
    CASE k = 0 -> 1 [] k = 2 -> -1 [] OTHER -> 0

Sin4(angle) ==
    LET k == (angle % (2 * PI)) \div (PI \div 2) IN
    CASE k = 1 -> 1 [] k = 3 -> -1 [] OTHER -> 0

\* Matrix.Rotation(angle, 4, axis) * v
RotateAbout(angle, axis, v) ==
    LET n2 == Dot(axis, axis)
        n  == ISqrt(n2)
    IN  VAdd(VAdd(VScale(Cos4(angle), v),
                  IF Sin4(angle) = 0 THEN Zero3
                  ELSE VDiv(VScale(Sin4(angle), Cross(axis, v)), n)),
             VDiv(VScale((1 - Cos4(angle)) * Dot(axis, v), axis), n2))

----------------------------------------------------------------------------
(* match_pole_target(ik_first, ik_last, pole, match_bone, length)          *)
(*                                                                         *)
(* After the pole is moved the host's IK solver gives ik_first a new       *)
(* matrix.  The solver is a function of where the pole is: pt.memo keeps   *)
(* the rotation (in quarter turns) it gave for each place tried so far.    *)

\* ploc = a + (ikv/2) + pvi
PoleLoc(P, pvi) == VAdd(VAdd(P.a, VDiv(P.ikv, 2)), pvi)

Solves(P, pvi, k) ==
    PoleLoc(P, pvi) \in DOMAIN P.memo => P.memo[PoleLoc(P, pvi)] = k

Remember(P, pvi, k) == [P EXCEPT !.memo = (PoleLoc(P, pvi) :> k) @@ @]

\* set_pole(pvi), and the solver's answer k
set_pole(B, P, pvi, k) ==
    LET mat == get_pose_matrix_in_other_space(B, Translation(PoleLoc(P, pvi)), P.pole)
        B1  == HostUpdate(set_pose_translation(B, P.pole, mat))
    IN  IF B1[P.ik_first].solved
        THEN [B1 EXCEPT ![P.ik_first].matrix = [m |-> RotZ(k), t |-> P.a]]
        ELSE B1

\* a faulty variant: the first candidate is kept when it is not worse
KeepFirstOnTie(ang1, ang2) == ang1 <= ang2

\* if ang1 < ang2
KeepFirst(ang1, ang2) == ang1 < ang2

PoleWrite(P) == [bone |-> P.pole, chan |-> "location"]

\* set_pole on a pole that is None: pose_bone.bone raises AttributeError
PtNoPole ==
    /\ pc = "pt_call"
    /\ pt.pole = ""
    /\ pt' = [pt EXCEPT !.state = "AttributeError"]
    /\ pc' = "raised"
    /\ UNCHANGED <<bones, call, fm, ts, cr, cv, log, mt>>

\* lines 236-263
PtPlace ==
    /\ pc = "pt_call"
    /\ pt.pole # ""
    /\ \E k \in 0..3 :
        LET a   == to_translation(bones[pt.ik_first].matrix)
            b   == VAdd(to_translation(bones[pt.ik_last].matrix),
                        BoneVector(bones[pt.ik_last]))
            ikv == VSub(b, a)
            pv  == NormalizedTimes(perpendicular_vector(ikv), pt.length)
            P   == [pt EXCEPT !.a = a, !.ikv = ikv, !.pv = pv]
            B   == set_pole(bones, P, pv, k)
        IN  /\ bones' = B
            /\ pt' = [Remember(P, pv, k) EXCEPT
                        !.state = "placed",
                        !.angle = rotation_difference(B[pt.ik_first].matrix,
                                                      B[pt.match_bone].matrix)]
    /\ log' = Append(log, PoleWrite(pt))
    /\ pc' = "pt_try1"
    /\ UNCHANGED <<call, fm, ts, cr, cv, mt>>

\* lines 266-268
PtTry1 ==
    /\ pc = "pt_try1"
    /\ \E k \in 0..3 :
        LET pv1 == RotateAbout(pt.angle, pt.ikv, pt.pv)
            B   == set_pole(bones, pt, pv1, k)
        IN  /\ Solves(pt, pv1, k)
            /\ bones' = B
            /\ pt' = [Remember(pt, pv1, k) EXCEPT
                        !.pv1 = pv1,
                        !.ang1 = rotation_difference(B[pt.ik_first].matrix,
                                                     B[pt.match_bone].matrix)]
    /\ log' = Append(log, PoleWrite(pt))
    /\ pc' = "pt_try2"
    /\ UNCHANGED <<call, fm, ts, cr, cv, mt>>

\* lines 270-272
PtTry2 ==
    /\ pc = "pt_try2"
    /\ \E k \in 0..3 :
        LET pv2 == RotateAbout(-pt.angle, pt.ikv, pt.pv)
            B   == set_pole(bones, pt, pv2, k)
        IN  /\ Solves(pt, pv2, k)
            /\ bones' = B
            /\ pt' = [Remember(pt, pv2, k) EXCEPT
                        !.pv2 = pv2,
                        !.ang2 = rotation_difference(B[pt.ik_first].matrix,
                                                     B[pt.match_bone].matrix)]
    /\ log' = Append(log, PoleWrite(pt))
    /\ pc' = "pt_choose"
    /\ UNCHANGED <<call, fm, ts, cr, cv, mt>>

\* lines 275-276, the first candidate put back
PtKeepFirst ==
    /\ pc = "pt_choose"
    /\ KeepFirst(pt.ang1, pt.ang2)
    /\ bones' = set_pole(bones, pt, pt.pv1, pt.memo[PoleLoc(pt, pt.pv1)])
    /\ pt' = [pt EXCEPT !.state = "first"]
    /\ log' = Append(log, PoleWrite(pt))
    /\ pc' = "done"
    /\ UNCHANGED <<call, fm, ts, cr, cv, mt>>

\* line 275 false: the second candidate stays
PtKeepSecond ==
    /\ pc = "pt_choose"
    /\ ~KeepFirst(pt.ang1, pt.ang2)
    /\ pt' = [pt EXCEPT !.state = "second"]
    /\ pc' = "done"
    /\ UNCHANGED <<bones, call, fm, ts, cr, cv, log, mt>>

PtFrame(ik_first, ik_last, pole, match_bone, length) ==
    [state |-> "idle", ik_first |-> ik_first, ik_last |-> ik_last, pole |-> pole,
     match_bone |-> match_bone, length |-> length,
     a |-> Zero3, ikv |-> Zero3, pv |-> Zero3, pv1 |-> Zero3, pv2 |-> Zero3,
     angle |-> 0, ang1 |-> 0, ang2 |-> 0, memo |-> [x \in {} |-> 0]]

----------------------------------------------------------------------------
(* IK/FK snapping functions.  A matcher picks its branch on entry and then *)
(* runs the statements of that branch in order; mt.prog holds the          *)
(* statements still to run.  fk and ik are the lists of bone names, with   *)
(* Python's index i at position i + 1.                                     *)

\* the locals of a correct_rotation call
CrFrame(ik, fk, b) ==
    [bone_ik |-> ik, bone_fk |-> fk, alfamin |-> 0, wrote |-> FALSE,
     outcome |-> "running", bone0 |-> b]

Ins(op, a, b) == [op |-> op, a |-> a, b |-> b]

\* match_pose_translation / rotation / scale (a, b)
MatchT(a, b) == Ins("T", a, b)
MatchR(a, b) == Ins("R", a, b)
MatchS(a, b) == Ins("S", a, b)

HasKey(B, n, key) == key \in DOMAIN B[n].props

\* a faulty variant: the forearm's translation is matched as well
fk2ik_arm_forearm_translation(B, fk, ik) ==
    IF HasKey(B, ik[3], "auto_stretch")
    THEN <<Ins("stretch", fk[1], ik[3]),
           MatchR(fk[1], ik[1]), MatchS(fk[1], ik[1]),
           MatchR(fk[2], ik[2]), MatchS(fk[2], ik[2]),
           MatchR(fk[3], ik[3]), MatchS(fk[3], ik[3])>>
    ELSE <<MatchT(fk[1], ik[1]), MatchR(fk[1], ik[1]), MatchS(fk[1], ik[1]),
           MatchT(fk[2], ik[2]), MatchR(fk[2], ik[2]), MatchS(fk[2], ik[2]),
           MatchT(fk[3], ik[3]), MatchR(fk[3], ik[3]), MatchS(fk[3], ik[3])>>

\* fk2ik_arm(obj, fk, ik): uarm, farm, hand = fk; uarmi, farmi, handi = ik
fk2ik_arm(B, fk, ik) ==
    IF HasKey(B, ik[3], "auto_stretch")
    THEN <<Ins("stretch", fk[1], ik[3]),
           MatchR(fk[1], ik[1]), MatchS(fk[1], ik[1]),
           MatchR(fk[2], ik[2]), MatchS(fk[2], ik[2]),
           MatchR(fk[3], ik[3]), MatchS(fk[3], ik[3])>>
    ELSE <<MatchT(fk[1], ik[1]), MatchR(fk[1], ik[1]), MatchS(fk[1], ik[1]),
           MatchR(fk[2], ik[2]), MatchS(fk[2], ik[2]),
           MatchT(fk[3], ik[3]), MatchR(fk[3], ik[3]), MatchS(fk[3], ik[3])>>

\* the pole of ik2fk_arm (ik[3], ik[4]) and ik2fk_leg (ik[4], ik[6]):
\* the named bone when the name is not empty and main_parent['pole_vector']
\* is true, else None
PoleOf(B, name, main_parent) ==
    IF name # "" /\ B[main_parent].props["pole_vector"] # 0 THEN name ELSE ""

\* a faulty variant: the hand is matched the wrong way round
ik2fk_arm_hand_reversed(B, fk, ik) ==
    IF PoleOf(B, ik[4], ik[5]) # ""
    THEN <<MatchT(fk[3], ik[3]), MatchR(fk[3], ik[3]), MatchS(fk[3], ik[3]),
           Ins("pole", PoleOf(B, ik[4], ik[5]), "")>>
    ELSE <<MatchT(fk[3], ik[3]), MatchR(fk[3], ik[3]), MatchS(fk[3], ik[3]),
           MatchT(ik[1], fk[1]), MatchR(ik[1], fk[1]), MatchS(ik[1], fk[1]),
           Ins("correct", ik[1], fk[1])>>

\* ik2fk_arm(obj, fk, ik): ik = uarmi, farmi, handi, pole, main_parent
ik2fk_arm(B, fk, ik) ==
    IF PoleOf(B, ik[4], ik[5]) # ""
    THEN <<MatchT(ik[3], fk[3]), MatchR(ik[3], fk[3]), MatchS(ik[3], fk[3]),
           Ins("pole", PoleOf(B, ik[4], ik[5]), "")>>
    ELSE <<MatchT(ik[3], fk[3]), MatchR(ik[3], fk[3]), MatchS(ik[3], fk[3]),
           MatchT(ik[1], fk[1]), MatchR(ik[1], fk[1]), MatchS(ik[1], fk[1]),
           Ins("correct", ik[1], fk[1])>>

\* a faulty variant: the thigh's translation is matched in the stretch branch
fk2ik_leg_stretch_translation(B, fk, ik) ==
    IF HasKey(B, ik[3], "auto_stretch")
    THEN <<Ins("stretch", fk[1], ik[3]),
           MatchT(fk[1], ik[1]), MatchR(fk[1], ik[1]), MatchS(fk[1], ik[1]),
           MatchR(fk[2], ik[2]), MatchS(fk[2], ik[2]),
           Ins("foot_fk", fk[3], ik[4])>>
    ELSE <<MatchT(fk[1], ik[1]), MatchR(fk[1], ik[1]), MatchS(fk[1], ik[1]),
           MatchR(fk[2], ik[2]), MatchS(fk[2], ik[2]),
           Ins("foot_fk", fk[3], ik[4])>>

\* fk2ik_leg(obj, fk, ik): fk = thigh, shin, foot, mfoot;
\* ik = thighi, shini, footi, mfooti
fk2ik_leg(B, fk, ik) ==
    IF HasKey(B, ik[3], "auto_stretch")
    THEN <<Ins("stretch", fk[1], ik[3]),
           MatchR(fk[1], ik[1]), MatchS(fk[1], ik[1]),
           MatchR(fk[2], ik[2]), MatchS(fk[2], ik[2]),
           Ins("foot_fk", fk[3], ik[4])>>
    ELSE <<MatchT(fk[1], ik[1]), MatchR(fk[1], ik[1]), MatchS(fk[1], ik[1]),
           MatchR(fk[2], ik[2]), MatchS(fk[2], ik[2]),
           Ins("foot_fk", fk[3], ik[4])>>

\* ik2fk_leg(obj, fk, ik): fk = thigh, shin, mfoot, foot;
\* ik = thighi, shini, footi, footroll, pole, mfooti, main_parent
ik2fk_leg(B, fk, ik) ==
    IF PoleOf(B, ik[5], ik[7]) = "" /\ fk[4] # ""
    THEN <<Ins("footroll", ik[4], ""),
           Ins("foot_ik", ik[3], fk[4]),
           MatchT(ik[1], fk[1]), MatchR(ik[1], fk[1]), MatchS(ik[1], fk[1]),
           Ins("correct", ik[1], fk[1])>>
    ELSE <<Ins("leg_stretch", ik[3], fk[1]),
           Ins("footroll", ik[4], ""),
           Ins("foot_ik", ik[3], fk[3]),
           Ins("pole", PoleOf(B, ik[5], ik[7]), "")>>

Wrote(bone, chan) == [bone |-> bone, chan |-> chan]

MtEnter ==
    /\ pc = "mt_call"
    /\ mt' = [mt EXCEPT !.state = "running",
                !.prog = CASE mt.op = "fk2ik_arm" -> fk2ik_arm(bones, mt.fk, mt.ik)
                           [] mt.op = "ik2fk_arm" -> ik2fk_arm(bones, mt.fk, mt.ik)
                           [] mt.op = "fk2ik_leg" -> fk2ik_leg(bones, mt.fk, mt.ik)
                           [] OTHER               -> ik2fk_leg(bones, mt.fk, mt.ik)]
    /\ pc' = "mt_run"
    /\ UNCHANGED <<bones, call, fm, ts, cr, cv, pt, log>>

Running(op) == pc = "mt_run" /\ mt.prog # <<>> /\ Head(mt.prog).op = op

MtTranslation ==
    /\ Running("T")
    /\ bones' = match_pose_translation(bones, Head(mt.prog).a, Head(mt.prog).b)
    /\ log' = Append(log, Wrote(Head(mt.prog).a, "location"))
    /\ mt' = [mt EXCEPT !.prog = Tail(@)]
    /\ UNCHANGED <<pc, call, fm, ts, cr, cv, pt>>

MtRotation ==
    /\ Running("R")
    /\ bones' = match_pose_rotation(bones, Head(mt.prog).a, Head(mt.prog).b)
    /\ log' = Append(log, Wrote(Head(mt.prog).a, "rotation"))
    /\ mt' = [mt EXCEPT !.prog = Tail(@)]
    /\ UNCHANGED <<pc, call, fm, ts, cr, cv, pt>>

MtScale ==
    /\ Running("S")
    /\ bones' = match_pose_scale(bones, Head(mt.prog).a, Head(mt.prog).b)
    /\ log' = Append(log, Wrote(Head(mt.prog).a, "scale"))
    /\ mt' = [mt EXCEPT !.prog = Tail(@)]
    /\ UNCHANGED <<pc, call, fm, ts, cr, cv, pt>>

\* pose_bone.vector.length
VectorLength(b) == VLength(BoneVector(b))

\* a faulty variant: the ratio is taken the other way round
StretchLengthInverse(B, fk, ik) ==
    IF B[ik[3]].props["auto_stretch"] = 0
    THEN B[ik[3]].props["stretch_length"]
    ELSE (B[fk[1]].props["stretch_length"]
            * (VectorLength(B[fk[1]]) + VectorLength(B[fk[2]])))
         \div (VectorLength(B[ik[1]]) + VectorLength(B[ik[2]]))

\* lines 295-299 and 392-396: the legacy stretch of the first FK bone
StretchLength(B, fk, ik) ==
    IF B[ik[3]].props["auto_stretch"] = 0
    THEN B[ik[3]].props["stretch_length"]
    ELSE (B[fk[1]].props["stretch_length"]
            * (VectorLength(B[ik[1]]) + VectorLength(B[ik[2]])))
         \div (VectorLength(B[fk[1]]) + VectorLength(B[fk[2]]))

MtStretch ==
    /\ Running("stretch")
    /\ bones' = [bones EXCEPT ![mt.fk[1]].props["stretch_length"] =
                                    StretchLength(bones, mt.fk, mt.ik)]
    /\ log' = Append(log, Wrote(mt.fk[1], "stretch_length"))
    /\ mt' = [mt EXCEPT !.prog = Tail(@)]
    /\ UNCHANGED <<pc, call, fm, ts, cr, cv, pt>>

\* lines 407-412 and 425-430: the FK foot from the IK foot helper
MtFootFK ==
    /\ Running("foot_fk")
    /\ LET foot    == mt.fk[3]
           mfoot   == mt.fk[4]
           mfooti  == mt.ik[4]
           mat     == MatMul(Inverted(bones[mfoot].rest), bones[foot].rest)
           footmat == MatMul(get_pose_matrix_in_other_space(
                                 bones, bones[mfooti].matrix, foot), mat)
       IN  bones' = HostUpdate(set_pose_scale(
                        set_pose_rotation(bones, foot, footmat), foot, footmat))
    /\ log' = log \o <<Wrote(mt.fk[3], "rotation"), Wrote(mt.fk[3], "scale")>>
    /\ mt' = [mt EXCEPT !.prog = Tail(@)]
    /\ UNCHANGED <<pc, call, fm, ts, cr, cv, pt>>

\* lines 483-485: the keys tested are 'stretch_lenght'
MtLegStretch ==
    /\ Running("leg_stretch")
    /\ LET footi == mt.ik[3]
           thigh == mt.fk[1]
       IN  IF HasKey(bones, footi, "stretch_lenght") /\ HasKey(bones, thigh, "stretch_lenght")
           THEN /\ bones' = [bones EXCEPT ![footi].props["stretch_length"] =
                                              bones[thigh].props["stretch_length"]]
                /\ log' = Append(log, Wrote(footi, "stretch_length"))
           ELSE UNCHANGED <<bones, log>>
    /\ mt' = [mt EXCEPT !.prog = Tail(@)]
    /\ UNCHANGED <<pc, call, fm, ts, cr, cv, pt>>

\* lines 462 and 488: set_pose_rotation(footroll, Matrix())
MtFootroll ==
    /\ Running("footroll")
    /\ bones' = set_pose_rotation(bones, Head(mt.prog).a, Identity)
    /\ log' = Append(log, Wrote(Head(mt.prog).a, "rotation"))
    /\ mt' = [mt EXCEPT !.prog = Tail(@)]
    /\ UNCHANGED <<pc, call, fm, ts, cr, cv, pt>>

\* lines 465-471 and 491-497: the IK foot from the FK foot (or its helper)
MtFootIK ==
    /\ Running("foot_ik")
    /\ LET footi   == mt.ik[3]
           mfooti  == mt.ik[6]
           src     == Head(mt.prog).b
           mat     == MatMul(Inverted(bones[mfooti].rest), bones[footi].rest)
           footmat == MatMul(get_pose_matrix_in_other_space(
                                 bones, bones[src].matrix, footi), mat)
       IN  bones' = HostUpdate(set_pose_scale(set_pose_rotation(
                        set_pose_translation(bones, footi, footmat),
                        footi, footmat), footi, footmat))
    /\ log' = log \o <<Wrote(mt.ik[3], "location"), Wrote(mt.ik[3], "rotation"),
                       Wrote(mt.ik[3], "scale")>>
    /\ mt' = [mt EXCEPT !.prog = Tail(@)]
    /\ UNCHANGED <<pc, call, fm, ts, cr, cv, pt>>

\* lines 372 and 479: correct_rotation(uarmi, uarm) / (thighi, thigh)
MtCorrect ==
    /\ Running("correct")
    /\ cr' = CrFrame(Head(mt.prog).a, Head(mt.prog).b, bones[Head(mt.prog).a])
    /\ mt' = [mt EXCEPT !.prog = Tail(@)]
    /\ pc' = "cr_call"
    /\ UNCHANGED <<bones, call, fm, ts, cv, pt, log>>

\* lines 359 and 500: match_pole_target(uarmi, farmi, pole, uarm, length)
MtPole ==
    /\ Running("pole")
    /\ pt' = PtFrame(mt.ik[1], mt.ik[2], Head(mt.prog).a, mt.fk[1],
                     bones[mt.ik[1]].length + bones[mt.ik[2]].length)
    /\ mt' = [mt EXCEPT !.prog = Tail(@)]
    /\ pc' = "pt_call"
    /\ UNCHANGED <<bones, call, fm, ts, cr, cv, log>>

MtReturn ==
    /\ pc = "mt_run"
    /\ mt.prog = <<>>
    /\ pc' = "done"
    /\ UNCHANGED <<bones, call, fm, ts, cr, cv, pt, log, mt>>

----------------------------------------------------------------------------
(* Specification of the rotation minimizer: one call of correct_rotation   *)
(* on a joint, for every initial mode, several stored rotations and every  *)
(* objective of the family.                                                *)

\* stored rotations are multiples of pi/2 up to MaxTurns quarter turns
MaxTurns == 2

\* slopes of the unimodal objectives
MaxSlope == 2

InitAngles == {k * (PI \div 2) : k \in (-MaxTurns)..MaxTurns}

RotBone(mode, a0) == [PlainBone EXCEPT
    !.rotation_mode       = mode,
    !.rotation_quaternion = IF mode = "QUATERNION" THEN a0 % (4 * PI) ELSE 0,
    !.rotation_axis_angle = [angle |-> IF mode = "AXIS_ANGLE" THEN a0 ELSE 0,
                             axis  |-> 1],
    !.rotation_euler      = IF mode = "XYZ" THEN a0 ELSE 0]

\* the angle find_min_range starts from
StartAngleOf(b) == rotation_mode_set(b, "AXIS_ANGLE").rotation_axis_angle.angle

\* where the minimum of a unimodal objective lies, relative to the start
VeeOffsets ==
    {-3 * Delta, -(Delta \div 2), 0, Delta \div 2, 3 * Delta, 5 * Delta + 486}

Objectives(start) ==
    {[kind |-> k, x0 |-> 0, sl |-> 0, sr |-> 0] : k \in {"inc", "dec", "flat"}}
    \cup {[kind |-> "vee", x0 |-> start + off, sl |-> sl, sr |-> sr] :
              off \in VeeOffsets, sl \in 1..MaxSlope, sr \in 1..MaxSlope}

CvIdle == [bone |-> "", local |-> Identity, world |-> Identity, result |-> Identity]

PtIdle == PtFrame("", "", "", "", 0)

MtIdle == [op |-> "", fk |-> <<>>, ik |-> <<>>, prog |-> <<>>, state |-> "idle",
           self |-> FALSE, bones0 |-> <<>>]

FmIdle == [rot_mod |-> "", start_angle |-> 0, angle |-> 0, positions |-> 0,
           state |-> "idle", lo |-> 0, hi |-> 0]

TsIdle == [left |-> 0, right |-> 0, prec |-> 0, evals |-> 0, iters |-> 0,
           state |-> "idle", ret |-> 0]

InitRot ==
    \E mode \in Modes, a0 \in InitAngles, ro \in {-1, 0, 1}, fk \in {"ik", "fk"} :
      LET b == RotBone(mode, a0) IN
      \E obj \in Objectives(StartAngleOf(b)) :
        /\ bones = [n \in {"ik", "fk"} |-> b]
        /\ call = [op |-> "correct_rotation", obj |-> obj, roundoff |-> ro]
        /\ cr = CrFrame("ik", fk, b)
        /\ fm = FmIdle
        /\ ts = TsIdle
        /\ cv = CvIdle
        /\ pt = PtIdle
        /\ log = <<>>
        /\ mt = MtIdle
        /\ pc = "cr_call"

NextRot ==
    \/ FmrEnter
    \/ FmrScan
    \/ FmrExhaust
    \/ CrRaise
    \/ CrTernary
    \/ TsStep
    \/ TsReturn
    \/ CrWrite

SpecRot == InitRot /\ [][NextRot]_vars

----------------------------------------------------------------------------
(* Specification of ternarySearch alone: the call                          *)
(* ternarySearch(tail_distance, left, right, bone_ik, bone_fk, prec) on a  *)
(* bracket of width 2 (in units of 1/3^14, so that every third is exact)   *)
(* with a strictly unimodal objective whose minimum x0 lies in it.         *)

TernUnit == 3 ^ 14

\* 0.01 and 0.1 in units of 1/3^14, rounded up (widths are whole units)
TernPrecisions == {47830, 478297}

TernLeft == -TernUnit

TernRight == TernUnit

TernMinima ==
    {TernLeft, TernLeft + 1, leftThird(TernLeft, TernRight), -5, 0,
     rightThird(TernLeft, TernRight) + 7, TernRight - 1, TernRight}

InitTern ==
    \E mode \in Modes, x0 \in TernMinima, prec \in TernPrecisions,
       sl \in 1..MaxSlope, sr \in 1..MaxSlope :
        /\ bones = [n \in {"ik", "fk"} |-> RotBone(mode, 0)]
        /\ call = [op |-> "ternarySearch", roundoff |-> 0,
                   obj |-> [kind |-> "vee", x0 |-> x0, sl |-> sl, sr |-> sr]]
        /\ cr = CrFrame("ik", "fk", RotBone(mode, 0))
        /\ fm = FmIdle
        /\ ts = [left |-> TernLeft, right |-> TernRight, prec |-> prec,
                 evals |-> 0, iters |-> 0, state |-> "running", ret |-> 0]
        /\ cv = CvIdle
        /\ pt = PtIdle
        /\ log = <<>>
        /\ mt = MtIdle
        /\ pc = "ts_loop"

NextTern ==
    \/ TsStep
    \/ TsReturn

SpecTern == InitTern /\ [][NextTern]_vars

----------------------------------------------------------------------------
(* Specification of ternarySearch on narrow brackets: the unit is the      *)
(* spacing of the representable values about the bracket, so left and      *)
(* right are whole numbers, a third is rounded to the nearest of them, and *)
(* a tolerance of one unit stands for every tolerance of at most the       *)
(* spacing (a width is a whole number: it is below such a tolerance only   *)
(* when it is 0).  The objective is any of the family.                     *)

MaxWidth == 9

MaxPrec == 3

MaxIters == 8

TermLefts == {-4, 0}

TermObjectives(left, right) ==
    {[kind |-> k, x0 |-> 0, sl |-> 1, sr |-> 1] : k \in {"inc", "dec", "flat"}}
    \cup {[kind |-> "vee", x0 |-> x0, sl |-> 1, sr |-> sr] :
              x0 \in {left, right}, sr \in 1..MaxSlope}

InitTerm ==
    \E mode \in Modes, left \in TermLefts, width \in 0..MaxWidth,
       prec \in 1..MaxPrec :
        \E obj \in TermObjectives(left, left + width) :
            /\ bones = [n \in {"ik", "fk"} |-> RotBone(mode, 0)]
            /\ call = [op |-> "ternarySearch", roundoff |-> 0, obj |-> obj]
            /\ cr = CrFrame("ik", "fk", RotBone(mode, 0))
            /\ fm = FmIdle
            /\ ts = [left |-> left, right |-> left + width, prec |-> prec,
                     evals |-> 0, iters |-> 0, state |-> "running", ret |-> 0]
            /\ cv = CvIdle
            /\ pt = PtIdle
            /\ log = <<>>
            /\ mt = MtIdle
            /\ pc = "ts_loop"

\* the loop is followed for MaxIters iterations
TsBounded ==
    /\ ts.iters < MaxIters
    /\ TsStep

NextTerm ==
    \/ TsBounded
    \/ TsReturn

SpecTerm == InitTerm /\ [][NextTerm]_vars

----------------------------------------------------------------------------
(* Specification of the space converter: a bone, with or without a parent, *)
(* is given a local matrix M; the host evaluates its armature-space matrix *)
(* and get_pose_matrix_in_other_space converts that matrix back.           *)

\* rest and pose matrices: rotations, a reflection and a shear, translated
ConvMats ==
    {Identity,
     [m |-> RotZ(1), t |-> <<1, 2, 0>>],
     [m |-> <<<<1, 0, 0>>, <<0, 0, -1>>, <<0, 1, 0>>>>, t |-> <<0, -1, 3>>],
     [m |-> <<<<1, 1, 0>>, <<0, 1, 0>>, <<0, 0, -1>>>>, t |-> <<2, 0, 1>>]}

\* local matrices: any matrix, invertible or not
LocalMats ==
    {Identity,
     [m |-> RotZ(3), t |-> <<0, 4, 0>>],
     [m |-> <<<<2, 0, 0>>, <<0, 3, 0>>, <<0, 0, 1>>>>, t |-> <<1, 1, 1>>],
     [m |-> <<<<0, 2, 0>>, <<0, 0, 0>>, <<1, 0, 5>>>>, t |-> <<-3, 0, 2>>]}

InitConv ==
    \E rest \in ConvMats, par_mat \in ConvMats, par_rest \in ConvMats,
       M \in LocalMats, has_parent \in BOOLEAN :
        /\ has_parent \/ (par_mat = Identity /\ par_rest = Identity)
        /\ bones = [n \in {"bone", "parent"} |->
                      IF n = "bone"
                      THEN [PlainBone EXCEPT !.rest = rest,
                               !.parent = IF has_parent THEN "parent" ELSE ""]
                      ELSE [PlainBone EXCEPT !.rest = par_rest, !.matrix = par_mat]]
        /\ call = [op |-> "get_pose_matrix_in_other_space", roundoff |-> 0,
                   obj |-> [kind |-> "flat", x0 |-> 0, sl |-> 0, sr |-> 0]]
        /\ cv = [CvIdle EXCEPT !.bone = "bone", !.local = M]
        /\ cr = CrFrame("", "", PlainBone)
        /\ fm = FmIdle
        /\ ts = TsIdle
        /\ pt = PtIdle
        /\ log = <<>>
        /\ mt = MtIdle
        /\ pc = "conv_pose"

\* the host evaluates the bone
ConvPose ==
    /\ pc = "conv_pose"
    /\ LET world == ArmatureImage(bones, cv.bone, cv.local)
       IN  /\ cv' = [cv EXCEPT !.world = world]
           /\ bones' = [bones EXCEPT ![cv.bone].matrix = world]
    /\ pc' = "conv_call"
    /\ UNCHANGED <<call, fm, ts, cr, pt, log, mt>>

ConvCall ==
    /\ pc = "conv_call"
    /\ cv' = [cv EXCEPT !.result = get_pose_matrix_in_other_space(bones, cv.world, cv.bone)]
    /\ pc' = "conv_done"
    /\ UNCHANGED <<bones, call, fm, ts, cr, pt, log, mt>>

NextConv ==
    \/ ConvPose
    \/ ConvCall

SpecConv == InitConv /\ [][NextConv]_vars

----------------------------------------------------------------------------
(* Specification of the pole resolver: one call of match_pole_target on an *)
(* IK chain of two bones, a pole with or without a parent and with either  *)
(* location convention, and a reference bone in any quarter-turn rotation. *)

\* where the last IK bone starts; with its vector (0, 2, 0) the chain
\* vectors are (0,4,0), (4,0,0), (6,8,0), (2,0,0) and (0,0,4)
PoleChains == {<<0, 2, 0>>, <<4, -2, 0>>, <<6, 6, 0>>, <<2, -2, 0>>, <<0, -2, 4>>}

\* the distances of the pole from the chain: those for which the rotated
\* offsets have whole coordinates
PoleLengths(last_head) == IF last_head = <<6, 6, 0>> THEN {5} ELSE {1, 5}

QuatOfTurns(k) == to_quaternion([m |-> RotZ(k), t |-> Zero3])

PoleArmature(last_head, kf, par, local, prest) ==
    HostUpdate(
      [n \in {"root", "pole", "ik_first", "ik_last", "match"} |->
        CASE n = "root" ->
               [PlainBone EXCEPT !.rest = [m |-> RotZ(1), t |-> <<0, 0, 1>>],
                                 !.location = <<2, 0, 0>>,
                                 !.rotation_quaternion = QuatOfTurns(1)]
          [] n = "pole" ->
               [PlainBone EXCEPT !.rest = prest,
                                 !.parent = IF par THEN "root" ELSE "",
                                 !.use_local_location = local]
          [] n = "ik_first" ->
               [PlainBone EXCEPT !.solved = TRUE, !.length = 3]
          [] n = "ik_last" ->
               [PlainBone EXCEPT !.solved = TRUE, !.length = 2,
                                 !.matrix = Translation(last_head)]
          [] OTHER ->
               [PlainBone EXCEPT !.rotation_quaternion = QuatOfTurns(kf)]])

InitPole ==
    \E last_head \in PoleChains, kf \in 0..3, par \in BOOLEAN, local \in BOOLEAN,
       prest \in {Identity, [m |-> RotZ(1), t |-> <<1, 0, 0>>]},
       pole \in {"pole", ""} :
    \E length \in PoleLengths(last_head) :
        /\ bones = PoleArmature(last_head, kf, par, local, prest)
        /\ call = [op |-> "match_pole_target", roundoff |-> 0,
                   obj |-> [kind |-> "flat", x0 |-> 0, sl |-> 0, sr |-> 0]]
        /\ pt = PtFrame("ik_first", "ik_last", pole, "match", length)
        /\ cv = CvIdle
        /\ cr = CrFrame("", "", PlainBone)
        /\ fm = FmIdle
        /\ ts = TsIdle
        /\ log = <<>>
        /\ mt = MtIdle
        /\ pc = "pt_call"

NextPole ==
    \/ PtNoPole
    \/ PtPlace
    \/ PtTry1
    \/ PtTry2
    \/ PtKeepFirst
    \/ PtKeepSecond

SpecPole == InitPole /\ [][NextPole]_vars

----------------------------------------------------------------------------
(* Specification of the four snapping functions on an arm and on a leg.    *)
(* The FK chain hangs from main_parent; the IK chain's first bone hangs    *)
(* from main_parent too, its last bone is placed by the IK solver, and the *)
(* IK hand/foot control and the pole are root bones.  With self, the ik    *)
(* list names the bones of the fk list.                                    *)

\* a bone in rotation mode mode whose rotation is the quaternion t
MBone(mode, t, parent, rest_t, length) ==
    rotation_mode_set([PlainBone EXCEPT !.rotation_quaternion = t,
                                        !.parent = parent,
                                        !.rest = Translation(rest_t),
                                        !.length = length], mode)

\* the legacy stretch attributes of an IK hand/foot control
StretchProps(has_auto, auto) ==
    IF has_auto THEN ("auto_stretch" :> auto) @@ ("stretch_length" :> 1200)
    ELSE NoProps

AutoCases == {<<FALSE, 0>>, <<TRUE, 0>>, <<TRUE, 1>>}

\* quarter turns, and the same rotations as quaternions with w < 0
MatchQuats == {0, PI \div 2, 2 * PI + PI \div 2}

ArmArmature(mode, tf, ti, ac, pvec, local) ==
    HostUpdate(
      [n \in {"main_parent", "uarm", "farm", "hand", "uarmi", "farmi", "handi", "pole"} |->
        CASE n = "main_parent" ->
               [PlainBone EXCEPT !.props = ("pole_vector" :> pvec)]
          [] n = "uarm" ->
               [MBone(mode, tf, "main_parent", <<0, 1, 0>>, 10) EXCEPT
                    !.props = ("stretch_length" :> 1000)]
          [] n = "farm" -> MBone(mode, 0, "uarm", <<0, 11, 0>>, 10)
          [] n = "hand" ->
               [MBone(mode, 0, "farm", <<0, 21, 0>>, 2) EXCEPT
                    !.scale = <<2, 2, 2>>,
                    !.props = StretchProps(ac[1], ac[2])]
          [] n = "uarmi" ->
               [MBone(mode, ti, "main_parent", <<0, 1, 0>>, 10) EXCEPT
                    !.solved = (pvec # 0),
                    !.matrix = [m |-> MatOfQuat(ti), t |-> <<0, 1, 0>>]]
          [] n = "farmi" ->
               [MBone(mode, 0, "uarmi", <<0, 11, 0>>, 12) EXCEPT
                    !.solved = TRUE,
                    !.matrix = Translation(<<0, 11, 0>>)]
          [] n = "handi" ->
               [MBone(mode, 0, "", <<0, 21, 0>>, 2) EXCEPT
                    !.location = <<0, 2, 0>>,
                    !.use_local_location = local,
                    !.props = StretchProps(ac[1], ac[2])]
          [] OTHER ->
               [MBone(mode, 0, "", <<0, 11, -5>>, 1) EXCEPT
                    !.use_local_location = local]])

LegArmature(mode, tf, ti, ac, pvec, local) ==
    HostUpdate(
      [n \in {"main_parent", "thigh", "shin", "foot", "mfoot", "thighi", "shini",
              "footi", "mfooti", "footroll", "pole"} |->
        CASE n = "main_parent" ->
               [PlainBone EXCEPT !.props = ("pole_vector" :> pvec)]
          [] n = "thigh" ->
               [MBone(mode, tf, "main_parent", <<0, 1, 0>>, 10) EXCEPT
                    !.props = ("stretch_length" :> 1000)]
          [] n = "shin" -> MBone(mode, 0, "thigh", <<0, 11, 0>>, 10)
          [] n = "foot" ->
               [MBone(mode, 0, "shin", <<0, 21, 0>>, 2) EXCEPT
                    !.props = StretchProps(ac[1], ac[2])]
          [] n = "mfoot" -> MBone(mode, 0, "foot", <<0, 21, 1>>, 1)
          [] n = "thighi" ->
               [MBone(mode, ti, "main_parent", <<0, 1, 0>>, 10) EXCEPT
                    !.solved = (pvec # 0),
                    !.matrix = [m |-> MatOfQuat(ti), t |-> <<0, 1, 0>>]]
          [] n = "shini" ->
               [MBone(mode, 0, "thighi", <<0, 11, 0>>, 12) EXCEPT
                    !.solved = TRUE,
                    !.matrix = Translation(<<0, 11, 0>>)]
          [] n = "footi" ->
               [MBone(mode, 0, "", <<0, 21, 0>>, 2) EXCEPT
                    !.location = <<0, 2, 0>>,
                    !.use_local_location = local,
                    !.props = StretchProps(ac[1], ac[2])]
          [] n = "footroll" -> MBone(mode, PI \div 2, "footi", <<0, 21, 2>>, 1)
          [] n = "mfooti" -> MBone(mode, 0, "footroll", <<0, 21, 1>>, 1)
          [] OTHER ->
               [MBone(mode, 0, "", <<0, 11, -5>>, 1) EXCEPT
                    !.use_local_location = local]])

\* the objectives offered to correct_rotation when a matcher calls it
MatchObjectives ==
    {[kind |-> "inc", x0 |-> 0, sl |-> 0, sr |-> 0],
     [kind |-> "vee", x0 |-> PI \div 2 + Delta, sl |-> 1, sr |-> 1],
     [kind |-> "vee", x0 |-> 2 * PI, sl |-> 1, sr |-> 1]}

\* the arguments of the four calls: op, fk, ik
MatchCalls(self, pole, foot) ==
    {<<"fk2ik_arm", <<"uarm", "farm", "hand">>,
         IF self THEN <<"uarm", "farm", "hand">> ELSE <<"uarmi", "farmi", "handi">> >>,
     <<"ik2fk_arm", <<"uarm", "farm", "hand">>,
         IF self THEN <<"uarm", "farm", "hand", pole, "main_parent">>
                 ELSE <<"uarmi", "farmi", "handi", pole, "main_parent">> >>,
     <<"fk2ik_leg", <<"thigh", "shin", "foot", "mfoot">>,
         IF self THEN <<"thigh", "shin", "foot", "mfoot">>
                 ELSE <<"thighi", "shini", "footi", "mfooti">> >>,
     <<"ik2fk_leg", <<"thigh", "shin", "mfoot", foot>>,
         IF self THEN <<"thigh", "shin", "foot", "footroll", pole, "mfoot", "main_parent">>
                 ELSE <<"thighi", "shini", "footi", "footroll", pole, "mfooti",
                        "main_parent">> >>}

IsArm(op) == op \in {"fk2ik_arm", "ik2fk_arm"}

IsFk2ik(op) == op \in {"fk2ik_arm", "fk2ik_leg"}

InitMatch ==
    \E self \in BOOLEAN, pole \in {"", "pole"}, foot \in {"", "foot"} :
    \E c \in MatchCalls(self, pole, foot) :
    \E mode \in Modes, tf \in MatchQuats, ti \in MatchQuats, ac \in AutoCases,
       pvec \in {0, 1}, local \in BOOLEAN, obj \in MatchObjectives :
        /\ IsFk2ik(c[1]) => pole = "" /\ pvec = 0 /\ obj.kind = "inc"
        /\ ~IsFk2ik(c[1]) => ac[2] = 0 /\ (ac[1] => c[1] = "ik2fk_leg")
        /\ c[1] # "ik2fk_leg" => foot = "foot"
        /\ self => ti = 0
        /\ self \/ (pole # "" /\ pvec # 0) => obj.kind = "inc"
        /\ bones = IF IsArm(c[1]) THEN ArmArmature(mode, tf, ti, ac, pvec, local)
                                  ELSE LegArmature(mode, tf, ti, ac, pvec, local)
        /\ call = [op |-> c[1], obj |-> obj, roundoff |-> 0]
        /\ mt = [op |-> c[1], fk |-> c[2], ik |-> c[3], prog |-> <<>>,
                 state |-> "called", self |-> self, bones0 |-> bones]
        /\ cr = CrFrame("", "", PlainBone)
        /\ fm = FmIdle
        /\ ts = TsIdle
        /\ cv = CvIdle
        /\ pt = PtIdle
        /\ log = <<>>
        /\ pc = "mt_call"

NextMatch ==
    \/ MtEnter
    \/ MtTranslation
    \/ MtRotation
    \/ MtScale
    \/ MtStretch
    \/ MtFootFK
    \/ MtLegStretch
    \/ MtFootroll
    \/ MtFootIK
    \/ MtCorrect
    \/ MtPole
    \/ MtReturn
    \/ FmrEnter
    \/ FmrScan
    \/ FmrExhaust
    \/ CrRaise
    \/ CrTernary
    \/ TsStep
    \/ TsReturn
    \/ CrWrite
    \/ PtNoPole
    \/ PtPlace
    \/ PtTry1
    \/ PtTry2
    \/ PtKeepFirst
    \/ PtKeepSecond

SpecMatch == InitMatch /\ [][NextMatch]_vars

----------------------------------------------------------------------------
(* The snap operators: execute(self, context) of Rigify_Arm_FK2IK,         *)
(* Rigify_Arm_IK2FK, Rigify_Leg_FK2IK and Rigify_Leg_IK2FK.  The frame of  *)
(* the operator is kept in call:                                           *)
(*   use_global_undo   context.user_preferences.edit.use_global_undo       *)
(*   saved             the local use_global_undo of execute                *)
(*   result            what execute returned ("" when it returned nothing) *)
(*   undo0             the preference as it was when execute was called    *)

\* use_global_undo = context.user_preferences.edit.use_global_undo
\* context.user_preferences.edit.use_global_undo = False
execute_enter(c) ==
    [c EXCEPT !.saved = c.use_global_undo, !.use_global_undo = FALSE]

\* a faulty variant: the preference restored after the call, without finally
execute_exit_no_finally(c, raised) ==
    IF raised THEN c
    ELSE [c EXCEPT !.use_global_undo = c.saved, !.result = "FINISHED"]

\* finally: the preference is restored; return {'FINISHED'} is reached only
\* when the snapping function has returned
execute_exit(c, raised) ==
    [c EXCEPT !.use_global_undo = c.saved,
              !.result = IF raised THEN "" ELSE "FINISHED"]

ExEnter ==
    /\ pc = "ex_call"
    /\ call' = execute_enter(call)
    /\ pc' = "mt_call"
    /\ UNCHANGED <<bones, fm, ts, cr, cv, pt, log, mt>>

\* the snapping function has returned
ExReturn ==
    /\ pc = "done"
    /\ call' = execute_exit(call, FALSE)
    /\ pc' = "ex_done"
    /\ UNCHANGED <<bones, fm, ts, cr, cv, pt, log, mt>>

\* the snapping function has raised: the exception leaves execute
ExRaise ==
    /\ pc = "raised"
    /\ call' = execute_exit(call, TRUE)
    /\ pc' = "ex_raised"
    /\ UNCHANGED <<bones, fm, ts, cr, cv, pt, log, mt>>

\* the rotations of the two chains before the operator runs
ExecQuats == {<<0, 0>>, <<PI \div 2, 0>>, <<0, PI \div 2>>}

InitExec ==
    \E undo \in BOOLEAN, pole \in {"", "pole"}, foot \in {"", "foot"} :
    \E c \in MatchCalls(FALSE, pole, foot) :
    \E mode \in Modes, q \in ExecQuats, ac \in AutoCases, pvec \in {0, 1},
       obj \in MatchObjectives :
        /\ IsFk2ik(c[1]) => pole = "" /\ pvec = 0 /\ obj.kind = "inc"
        /\ ~IsFk2ik(c[1]) => ac = <<FALSE, 0>>
        /\ c[1] # "ik2fk_leg" => foot = "foot"
        /\ pole # "" /\ pvec # 0 => obj.kind = "inc"
        /\ bones = IF IsArm(c[1])
                   THEN ArmArmature(mode, q[1], q[2], ac, pvec, FALSE)
                   ELSE LegArmature(mode, q[1], q[2], ac, pvec, FALSE)
        /\ call = [op |-> c[1], obj |-> obj, roundoff |-> 0,
                   use_global_undo |-> undo, undo0 |-> undo,
                   saved |-> FALSE, result |-> ""]
        /\ mt = [op |-> c[1], fk |-> c[2], ik |-> c[3], prog |-> <<>>,
                 state |-> "called", self |-> FALSE, bones0 |-> bones]
        /\ cr = CrFrame("", "", PlainBone)
        /\ fm = FmIdle
        /\ ts = TsIdle
        /\ cv = CvIdle
        /\ pt = PtIdle
        /\ log = <<>>
        /\ pc = "ex_call"

NextExec ==
    \/ ExEnter
    \/ ExReturn
    \/ ExRaise
    \/ NextMatch

SpecExec == InitExec /\ [][NextExec]_vars

----------------------------------------------------------------------------
(* Specification of the pose applicator alone: set_pose_translation,       *)
(* set_pose_rotation and set_pose_scale called, in any order, on one bone  *)
(* with local matrices that are quarter turns, scaled and translated.      *)

\* the number of setter calls followed
MaxWrites == 3

SetMats ==
    {[m |-> ScaledColumns(RotZ(1), <<2, 3, 1>>), t |-> <<1, 2, 3>>],
     [m |-> RotZ(3), t |-> <<0, 4, 0>>],
     [m |-> ScaledColumns(RotZ(2), <<1, 1, 2>>), t |-> <<-1, 0, 5>>]}

\* a bone whose three rotation fields hold three different rotations
SetBone(mode, local, has_parent) ==
    [PlainBone EXCEPT !.rotation_mode = mode,
                      !.rotation_quaternion = PI,
                      !.rotation_axis_angle = [angle |-> PI \div 4, axis |-> -1],
                      !.rotation_euler = -(PI \div 8),
                      !.location = <<7, 7, 7>>,
                      !.scale = <<5, 5, 5>>,
                      !.use_local_location = local,
                      !.rest = [m |-> RotZ(1), t |-> <<1, 2, 0>>],
                      !.parent = IF has_parent THEN "parent" ELSE ""]

InitSet ==
    \E mode \in Modes, local \in BOOLEAN, has_parent \in BOOLEAN :
        /\ bones = [n \in {"bone", "parent"} |->
                      IF n = "bone" THEN SetBone(mode, local, has_parent)
                      ELSE [PlainBone EXCEPT !.rest = [m |-> RotZ(2), t |-> <<0, 1, 0>>]]]
        /\ call = [op |-> "set_pose", roundoff |-> 0,
                   obj |-> [kind |-> "flat", x0 |-> 0, sl |-> 0, sr |-> 0]]
        /\ mt = [MtIdle EXCEPT !.bones0 = bones]
        /\ cv = CvIdle
        /\ cr = CrFrame("", "", PlainBone)
        /\ fm = FmIdle
        /\ ts = TsIdle
        /\ pt = PtIdle
        /\ log = <<>>
        /\ pc = "set_pose"

SetTranslation ==
    /\ pc = "set_pose" /\ Len(log) < MaxWrites
    /\ \E mat \in SetMats : bones' = set_pose_translation(bones, "bone", mat)
    /\ log' = Append(log, Wrote("bone", "location"))
    /\ UNCHANGED <<pc, call, fm, ts, cr, cv, pt, mt>>

SetRotation ==
    /\ pc = "set_pose" /\ Len(log) < MaxWrites
    /\ \E mat \in SetMats : bones' = set_pose_rotation(bones, "bone", mat)
    /\ log' = Append(log, Wrote("bone", "rotation"))
    /\ UNCHANGED <<pc, call, fm, ts, cr, cv, pt, mt>>

SetScale ==
    /\ pc = "set_pose" /\ Len(log) < MaxWrites
    /\ \E mat \in SetMats : bones' = set_pose_scale(bones, "bone", mat)
    /\ log' = Append(log, Wrote("bone", "scale"))
    /\ UNCHANGED <<pc, call, fm, ts, cr, cv, pt, mt>>

NextSet ==
    \/ SetTranslation
    \/ SetRotation
    \/ SetScale

SpecSet == InitSet /\ [][NextSet]_vars

----------------------------------------------------------------------------
(* Properties of the rotation minimizer *)

Joint == bones[cr.bone_ik]

\* find_min_range has left its loop because the window was exhausted
Exhausted == fm.state \in {"none", "bracket"} /\ ~InWindow(fm.angle, fm.start_angle)

\* every third taken so far was exact
ExactThirds == pc = "ts_loop" /\ ~Converged(ts.left, ts.right, ts.prec)
                   => (ts.right - ts.left) % 3 = 0

\* C1: when find_min_range exhausts its window, the joint ends with the
\* axis-angle angle and the rotation_mode it had before correct_rotation.
C1_JointUnmodifiedOnFailure ==
    fm.state = "none" =>
        /\ Joint.rotation_mode = cr.bone0.rotation_mode
        /\ Joint.rotation_axis_angle.angle = cr.bone0.rotation_axis_angle.angle

\* C2: when find_min_range finds no bracket, correct_rotation ends in an
\* outcome other than a normal return (the TypeError of subscripting None),
\* no ternary search has run and no resolved angle has been written; a
\* normal return happens only with a bracket.
C2_NonConvergenceSurfaced ==
    /\ Exhausted =>
          /\ pc \in {"cr_subscript", "raised"}
          /\ ts.state = "idle" /\ ts.evals = 0
          /\ ~cr.wrote
          /\ cr.outcome # "returned"
          /\ pc = "raised" => cr.outcome = "TypeError"
    /\ pc = "raised" => Exhausted

C2_Witness == pc = "raised" /\ cr.outcome = "TypeError" /\ fm.positions >= 16

\* C3: at every exit of find_min_range and of correct_rotation the joint's
\* rotation_mode is the mode it had on entry.
C3_ModeRestoredOnEveryExit ==
    pc \in {"cr_subscript", "raised", "done"} =>
        Joint.rotation_mode = cr.bone0.rotation_mode

\* C4: with a strictly unimodal objective whose minimizer x0 lies in
\* [left, right], ternarySearch keeps x0 in the current bracket at every
\* iteration and returns a value at distance less than absolutePrecision
\* from x0.
C4_TernaryKeepsMinimum ==
    call.op = "ternarySearch" =>
        /\ ts.left <= call.obj.x0 /\ call.obj.x0 <= ts.right
        /\ ts.state = "returned" => Abs(ts.ret - call.obj.x0) < ts.prec

C4_Witness ==
    /\ call.op = "ternarySearch" /\ ts.state = "returned"
    /\ ts.prec = 47830 /\ ts.iters = 14
    /\ call.obj.x0 = 0 /\ call.obj.sl = 1 /\ call.obj.sr = 1

\* C5 as claimed: with a strictly increasing objective find_min_range
\* visits at most 16 scan positions and returns no bracket.
C5_AtMost16Positions ==
    call.obj.kind = "inc" /\ cr.bone_ik # cr.bone_fk =>
        fm.positions <= 16 /\ fm.state # "bracket"

\* C5 as amended: with a strictly increasing objective find_min_range
\* visits at most 17 scan positions (16 unless the rounding of the sixteen
\* additions leaves the angle below start_angle + 2*pi) and returns None.
C5_AtMost17Positions ==
    call.obj.kind = "inc" /\ cr.bone_ik # cr.bone_fk =>
        /\ fm.positions <= 17
        /\ call.roundoff >= 0 => fm.positions <= 16
        /\ fm.state # "bracket"
        /\ pc # "fmr_loop" /\ fm.state # "idle" => fm.state = "none"
        /\ pc \notin {"ts_loop", "cr_write", "done"}

C5_Witness ==
    /\ call.obj.kind = "inc" /\ cr.bone_ik # cr.bone_fk
    /\ fm.state = "none" /\ fm.positions = 17

\* C6: when find_min_range returns a bracket, correct_rotation ends with
\* the joint's axis-angle angle equal to the value ternarySearch returned
\* for that bracket with tolerance 0.1, and with the joint's rotation_mode
\* equal to the mode it had before the call.
C6_ResolvedAngleWritten ==
    /\ pc = "done" /\ call.op = "correct_rotation" =>
          /\ fm.state = "bracket"
          /\ ts.state = "returned" /\ ts.prec = Precision
          /\ Converged(ts.left, ts.right, Precision)
          /\ fm.lo <= ts.left /\ ts.right <= fm.hi
          /\ ts.ret = Midpoint(ts.left, ts.right)
          /\ cr.wrote /\ cr.alfamin = ts.ret
          /\ Joint.rotation_axis_angle.angle = ts.ret
          /\ Joint.rotation_mode = cr.bone0.rotation_mode
    /\ fm.state = "bracket" /\ call.op = "correct_rotation" =>
          pc \in {"cr_subscript", "ts_loop", "cr_write", "done"}

C6_Witness ==
    /\ pc = "done" /\ call.op = "correct_rotation"
    /\ cr.bone0.rotation_mode = "QUATERNION"
    /\ ts.iters = 6
    /\ Joint.rotation_axis_angle.angle # cr.bone0.rotation_axis_angle.angle

----------------------------------------------------------------------------
(* Properties of the space converter *)

\* C9: for a bone with invertible rest and parent matrices, converting the
\* armature-space image parentPose * parentRest^-1 * rest * M of a local
\* matrix M gives M back; without a parent the result is rest^-1 * world.
C9_RoundTrip ==
    pc = "conv_done" =>
        /\ cv.result = cv.local
        /\ bones[cv.bone].parent = "" =>
              /\ cv.world = MatMul(bones[cv.bone].rest, cv.local)
              /\ cv.result = MatMul(Inverted(bones[cv.bone].rest), cv.world)

C9_Witness ==
    /\ pc = "conv_done"
    /\ bones[cv.bone].parent = "parent"
    /\ bones["parent"].matrix.m = RotZ(1)
    /\ bones["parent"].rest.m # I3 /\ bones["parent"].rest.m # RotZ(1)
    /\ bones[cv.bone].rest # Identity
    /\ Det3(cv.local.m) = 0
    /\ cv.world # cv.local

----------------------------------------------------------------------------
(* Properties of the pole resolver *)

\* where set_pole(pvi) leaves the pole bone
PoleAt(pvi) ==
    set_pose_translation(bones, pt.pole,
        get_pose_matrix_in_other_space(bones, Translation(PoleLoc(pt, pvi)), pt.pole)
      )[pt.pole].location

\* every division made by the pole resolver was exact
PoleExact ==
    pt.state \in {"first", "second"} =>
        /\ Dot(pt.pv, pt.pv) = pt.length * pt.length
        /\ Dot(pt.pv1, pt.pv1) = pt.length * pt.length
        /\ Dot(pt.pv2, pt.pv2) = pt.length * pt.length
        /\ Dot(pt.pv1, pt.ikv) = 0 /\ Dot(pt.pv2, pt.ikv) = 0

\* C7: match_pole_target leaves the pole at the +angle candidate exactly
\* when that candidate's residual is strictly smaller than the -angle
\* candidate's, and at the -angle candidate in every other case, equal
\* residuals included; the pole is never left at another place.
C7_PoleChoice ==
    pc = "done" /\ call.op = "match_pole_target" =>
        /\ pt.ang1 < pt.ang2 => bones[pt.pole].location = PoleAt(pt.pv1)
        /\ ~(pt.ang1 < pt.ang2) => bones[pt.pole].location = PoleAt(pt.pv2)
        /\ PoleAt(pt.pv1) # PoleAt(pt.pv2) =>
              (bones[pt.pole].location = PoleAt(pt.pv1) <=> pt.ang1 < pt.ang2)
        /\ bones[pt.pole].matrix.t \in {PoleLoc(pt, pt.pv1), PoleLoc(pt, pt.pv2)}

\* equal residuals with two distinct candidates, neither the first placement
C7_Witness ==
    /\ pc = "done" /\ call.op = "match_pole_target"
    /\ pt.ang1 = pt.ang2 /\ pt.ang1 > 0
    /\ pt.pv1 # pt.pv2 /\ pt.pv2 # pt.pv
    /\ bones[pt.pole].location = PoleAt(pt.pv2)
    /\ bones[pt.pole].location # PoleAt(pt.pv)
    /\ ~bones[pt.pole].use_local_location /\ bones[pt.pole].parent = "root"

----------------------------------------------------------------------------
(* Properties of the snapping functions *)

\* the value of the rotation field in use
RotationValue(b) ==
    CASE b.rotation_mode = "QUATERNION" -> b.rotation_quaternion
      [] b.rotation_mode = "AXIS_ANGLE" -> b.rotation_axis_angle
      [] OTHER                          -> b.rotation_euler

SameBoneState(b, b0) ==
    /\ b.location = b0.location
    /\ b.rotation_mode = b0.rotation_mode
    /\ RotationValue(b) = RotationValue(b0)
    /\ b.scale = b0.scale
    /\ b.props = b0.props

\* the matcher has finished, normally or with an exception
Finished == mt.state = "running" /\ pc \in {"done", "raised"}

\* C8: when the ik list names the bones of the fk list, a snapping function
\* leaves every bone's location, rotation value, rotation_mode, scale and
\* custom attributes as they were before the call, in every branch.
C8_SelfMatchNoOp ==
    Finished /\ mt.self =>
        \A n \in DOMAIN bones : SameBoneState(bones[n], mt.bones0[n])

\* the joints of the chain that is written: fk for fk2ik, ik for ik2fk
TargetChain == IF IsFk2ik(mt.op) THEN SubSeq(mt.fk, 1, 3) ELSE SubSeq(mt.ik, 1, 3)

OnChain(w) ==
    /\ \E i \in 1..3 : TargetChain[i] = w.bone
    /\ w.chan \in {"location", "rotation", "scale"}

\* the channel writes made to the joints of the target chain, in order
ChainWrites == SelectSeq(log, OnChain)

TRS(b) == <<Wrote(b, "location"), Wrote(b, "rotation"), Wrote(b, "scale")>>

RS(b) == <<Wrote(b, "rotation"), Wrote(b, "scale")>>

\* no auto-stretch attribute (fk2ik); the ik2fk functions have no such branch
DirectMode == IsFk2ik(mt.op) => ~HasKey(bones, mt.ik[3], "auto_stretch")

\* every statement of the matcher's own body has run
BodyDone == mt.state = "running" /\ mt.prog = <<>>

\* C10 as stated: in direct mode every joint of the target chain gets
\* translation, then rotation, then scale, first joint to last.
C10_TRSProximalToDistal ==
    BodyDone /\ DirectMode =>
        ChainWrites = TRS(TargetChain[1]) \o TRS(TargetChain[2]) \o TRS(TargetChain[3])

\* C10 amended: in direct mode the writes to the target chain are
\*   fk2ik_arm  upper arm T,R,S; forearm R,S; hand T,R,S
\*   fk2ik_leg  thigh T,R,S; shin R,S; foot R,S
\*   ik2fk_arm  hand T,R,S, then the upper arm T,R,S when no pole is used
\*   ik2fk_leg  foot T,R,S, then the thigh T,R,S when no pole is used and
\*              there is an FK foot
\* so within a joint translation (if written) precedes rotation precedes
\* scale, the FK joints are written first to last, and the second joint of
\* an IK chain is never written.
C10_WritesPerBranch ==
    BodyDone /\ DirectMode =>
        ChainWrites =
          CASE mt.op = "fk2ik_arm" ->
                 TRS(mt.fk[1]) \o RS(mt.fk[2]) \o TRS(mt.fk[3])
            [] mt.op = "fk2ik_leg" ->
                 TRS(mt.fk[1]) \o RS(mt.fk[2]) \o RS(mt.fk[3])
            [] mt.op = "ik2fk_arm" ->
                 IF mt.ik[4] # "" /\ bones[mt.ik[5]].props["pole_vector"] # 0
                 THEN TRS(mt.ik[3])
                 ELSE TRS(mt.ik[3]) \o TRS(mt.ik[1])
            [] OTHER ->
                 IF ~(mt.ik[5] # "" /\ bones[mt.ik[7]].props["pole_vector"] # 0)
                    /\ mt.fk[4] # ""
                 THEN TRS(mt.ik[3]) \o TRS(mt.ik[1])
                 ELSE TRS(mt.ik[3])

\* fk2ik_arm in direct mode on two distinct chains, returned
C10_Witness ==
    /\ pc = "done" /\ BodyDone /\ DirectMode
    /\ mt.op = "fk2ik_arm" /\ ~mt.self
    /\ Len(ChainWrites) = 8
    /\ bones["uarm"].matrix = bones["uarmi"].matrix
    /\ bones["uarm"] # mt.bones0["uarm"]

\* the names in a list of bone names
Names(list) == {list[i] : i \in 1..Len(list)} \ {""}

\* the bones of the chain that is read: ik for fk2ik, fk for ik2fk
SourceChain == IF IsFk2ik(mt.op) THEN Names(mt.ik) ELSE Names(mt.fk)

\* C11: on two distinct chains, fk2ik_arm and fk2ik_leg leave the pose
\* state and custom attributes of every bone of the ik list unchanged, and
\* ik2fk_arm and ik2fk_leg those of every bone of the fk list, at every
\* point of every branch.
C11_SourceChainUntouched ==
    mt.state = "running" /\ ~mt.self =>
        \A n \in SourceChain :
            /\ SameBoneState(bones[n], mt.bones0[n])
            /\ bones[n].matrix = mt.bones0[n].matrix

\* ik2fk_arm without a pole has moved the IK hand and upper arm and
\* corrected the upper arm's rotation
C11_Witness ==
    /\ Finished /\ ~mt.self /\ mt.op = "ik2fk_arm"
    /\ cr.wrote
    /\ ~SameBoneState(bones["handi"], mt.bones0["handi"])
    /\ ~SameBoneState(bones["uarmi"], mt.bones0["uarmi"])

----------------------------------------------------------------------------
(* Properties of the pose applicator *)

\* the channel of the setter call that makes the step
Written == log'[Len(log')].chan

\* the bone with field f of the rotation mode in use taken from b1
WithRotationOf(b, b1) ==
    CASE b.rotation_mode = "QUATERNION" ->
            [b EXCEPT !.rotation_quaternion = b1.rotation_quaternion]
      [] b.rotation_mode = "AXIS_ANGLE" ->
            [b EXCEPT !.rotation_axis_angle = b1.rotation_axis_angle]
      [] OTHER ->
            [b EXCEPT !.rotation_euler = b1.rotation_euler]

\* C12: a setter call changes nothing but its own channel of its own bone:
\* set_pose_translation only location, set_pose_scale only scale, and
\* set_pose_rotation only the rotation field of the bone's rotation_mode,
\* never rotation_mode, location, scale or another rotation field.
C12_SettersIndependent ==
    [][ /\ bones'["parent"] = bones["parent"]
        /\ Written = "location" =>
              bones'["bone"] = [bones["bone"] EXCEPT !.location = bones'["bone"].location]
        /\ Written = "scale" =>
              bones'["bone"] = [bones["bone"] EXCEPT !.scale = bones'["bone"].scale]
        /\ Written = "rotation" =>
              bones'["bone"] = WithRotationOf(bones["bone"], bones'["bone"]) ]_vars

\* all three setters have run on a bone in Euler mode with a parent and a
\* location that is not local: each channel has a new value, and the
\* quaternion and axis-angle fields are those the bone started with
C12_Witness ==
    /\ pc = "set_pose" /\ Len(log) = 3
    /\ {log[i].chan : i \in 1..3} = {"location", "rotation", "scale"}
    /\ bones["bone"].rotation_mode = "XYZ"
    /\ bones["bone"].parent = "parent" /\ ~bones["bone"].use_local_location
    /\ bones["bone"].rotation_euler # mt.bones0["bone"].rotation_euler
    /\ bones["bone"].location \notin {mt.bones0["bone"].location, <<1, 2, 3>>, <<0, 4, 0>>, <<-1, 0, 5>>}
    /\ bones["bone"].scale # mt.bones0["bone"].scale
    /\ bones["bone"].rotation_quaternion = PI
    /\ bones["bone"].rotation_axis_angle = [angle |-> PI \div 4, axis |-> -1]

\* the branch of fk2ik_arm / fk2ik_leg taken when the IK hand/foot has an
\* 'auto_stretch' attribute
AutoStretch == IsFk2ik(mt.op) /\ HasKey(bones, mt.ik[3], "auto_stretch")

\* the attributes other than stretch_length
OtherProps(b) == [k \in DOMAIN b.props \ {"stretch_length"} |-> b.props[k]]

\* C13: in the auto-stretch branch no location is written; the only
\* changes are the rotation and the scale of the three FK joints and the
\* stretch_length attribute of the first FK bone.
C13_StretchBranchWrites ==
    mt.state = "running" /\ AutoStretch =>
        /\ \A i \in 1..Len(log) : log[i].chan # "location"
        /\ \A n \in DOMAIN bones :
            /\ bones[n].location = mt.bones0[n].location
            /\ bones[n].rotation_mode = mt.bones0[n].rotation_mode
            /\ DOMAIN bones[n].props = DOMAIN mt.bones0[n].props
            /\ OtherProps(bones[n]) = OtherProps(mt.bones0[n])
            /\ n # mt.fk[1] => bones[n].props = mt.bones0[n].props
            /\ n \notin {mt.fk[1], mt.fk[2], mt.fk[3]} =>
                  SameBoneState(bones[n], mt.bones0[n])

\* fk2ik_leg on two distinct chains with auto_stretch on: the thigh has a
\* new rotation and a new stretch_length, the hand its old location
C13_Witness ==
    /\ Finished /\ AutoStretch /\ ~mt.self /\ mt.op = "fk2ik_leg"
    /\ Len(log) = 7
    /\ RotationValue(bones["thigh"]) # RotationValue(mt.bones0["thigh"])
    /\ bones["thigh"].props["stretch_length"] # mt.bones0["thigh"].props["stretch_length"]
    /\ bones["thigh"].matrix.m = bones["thighi"].matrix.m

\* vector.length of the first bone plus vector.length of the second, on entry
UpperLength(chain) ==
    VectorLength(mt.bones0[chain[1]]) + VectorLength(mt.bones0[chain[2]])

\* C14: in the auto-stretch branch the first FK bone's stretch_length
\* becomes the IK end bone's stretch_length when that bone's auto_stretch
\* is 0, and is otherwise multiplied by (sum of the two upper IK lengths) /
\* (sum of the two upper FK lengths): by 11/10 for sums 22 and 20.
C14_StretchLength ==
    mt.state = "running" /\ AutoStretch /\ log # <<>> =>
        LET s0 == mt.bones0[mt.fk[1]].props["stretch_length"]
            s1 == bones[mt.fk[1]].props["stretch_length"]
        IN  IF mt.bones0[mt.ik[3]].props["auto_stretch"] = 0
            THEN s1 = mt.bones0[mt.ik[3]].props["stretch_length"]
            ELSE /\ s1 * UpperLength(mt.fk) = s0 * UpperLength(mt.ik)
                 /\ UpperLength(mt.ik) = 22 /\ UpperLength(mt.fk) = 20 =>
                        10 * s1 = 11 * s0

\* IK lengths 10 + 12 and FK lengths 10 + 10: 1000 has become 1100
C14_Witness ==
    /\ Finished /\ AutoStretch /\ ~mt.self
    /\ bones[mt.ik[3]].props["auto_stretch"] # 0
    /\ UpperLength(mt.ik) = 22 /\ UpperLength(mt.fk) = 20
    /\ mt.bones0[mt.fk[1]].props["stretch_length"] = 1000
    /\ bones[mt.fk[1]].props["stretch_length"] = 1100

----------------------------------------------------------------------------
(* Properties of the pole resolver: distance and direction of the pole *)

\* from the chain midpoint a + ikv/2 to where the pole bone is, in armature space
FromMidpoint == VSub(bones[pt.pole].matrix.t, VAdd(pt.a, VDiv(pt.ikv, 2)))

\* C15: for a nonzero chain vector v the helper axis of perpendicular_vector
\* is never parallel to v (2 (v.helper)^2 <= |v|^2), its result is nonzero
\* and orthogonal to v, and every position match_pole_target gives the pole
\* is at distance exactly length from the chain midpoint a + v/2, in the
\* plane perpendicular to v.
C15_PoleDistance ==
    pt.state \in {"placed", "first", "second"} /\ pt.ikv # Zero3 =>
        /\ 2 * Dot(pt.ikv, HelperAxis(pt.ikv)) * Dot(pt.ikv, HelperAxis(pt.ikv))
              <= Dot(pt.ikv, pt.ikv)
        /\ perpendicular_vector(pt.ikv) # Zero3
        /\ Dot(perpendicular_vector(pt.ikv), pt.ikv) = 0
        /\ Dot(FromMidpoint, FromMidpoint) = pt.length * pt.length
        /\ Dot(FromMidpoint, pt.ikv) = 0

\* v = (2,0,0) from the origin and length 1: a pole with a parent and a
\* location that is not local ends at distance 1 from (1,0,0), after a
\* rotated candidate was tried
C15_Witness ==
    /\ pt.state \in {"first", "second"}
    /\ pt.ikv = <<2, 0, 0>> /\ pt.a = Zero3 /\ pt.length = 1
    /\ Dot(VSub(bones[pt.pole].matrix.t, <<1, 0, 0>>),
           VSub(bones[pt.pole].matrix.t, <<1, 0, 0>>)) = 1
    /\ bones[pt.pole].matrix.t[1] = 1
    /\ pt.pv1 # pt.pv
    /\ bones[pt.pole].parent = "root" /\ ~bones[pt.pole].use_local_location

----------------------------------------------------------------------------
(* Properties of the bracketing scan *)

\* f(angle) for the joint and reference of the running correct_rotation
Sample(angle) == tail_distance_dv(angle, cr.bone_ik, cr.bone_fk)

\* the centre sample at angle is strictly smaller than both neighbours
StrictMinimumAt(angle) ==
    /\ Sample(angle) < Sample(angle - Delta)
    /\ Sample(angle) < Sample(angle + Delta)

\* C16: whenever find_min_range returns a bracket (a - delta, a + delta)
\* the centre sample is the unique minimum of the three: f(a) < f(a - delta)
\* and f(a) < f(a + delta); a tie with a neighbour is not accepted.
C16_CentreUniqueMinimum ==
    fm.state = "bracket" => StrictMinimumAt(fm.lo + Delta)

\* C17: if any scan position start + k * pi/8 with -16 < k < 16 has a
\* centre sample strictly smaller than both neighbours, find_min_range
\* returns a bracket: it does not fail.
C17_ScansBothSides ==
    fm.state = "none" =>
        \A k \in -15..15 : ~StrictMinimumAt(fm.start_angle + k * Delta)

----------------------------------------------------------------------------
(* Properties of ik2fk_leg *)

\* C18: ik2fk_leg calls match_pole_target only with a pole bone that is
\* present, whatever the pole name, the pole_vector flag and the FK foot
\* name are; the pole resolver is never reached with a missing pole.
C18_PoleAlwaysPresent ==
    mt.op = "ik2fk_leg" /\ pt.state # "idle" =>
        pt.pole # "" /\ pt.state # "AttributeError"

----------------------------------------------------------------------------
(* Properties of ternarySearch on narrow brackets *)

\* C19: ternarySearch terminates for every bracket left <= right and every
\* positive absolutePrecision, whatever the objective: every iteration
\* leaves a bracket narrower than the one it found, so that the width gets
\* below the tolerance after finitely many of them.
C19_EveryIterationNarrows ==
    [][ts'.iters = ts.iters + 1 =>
           Abs(ts'.right - ts'.left) < Abs(ts.right - ts.left)]_vars

\* C20: in the pole branch of ik2fk_leg, whenever the IK foot and the FK
\* thigh both carry stretch_length, the IK foot's stretch_length is the FK
\* thigh's once the function has finished.
C20_FootStretchFromThigh ==
    /\ Finished /\ mt.op = "ik2fk_leg" /\ ~mt.self
    /\ ~(PoleOf(mt.bones0, mt.ik[5], mt.ik[7]) = "" /\ mt.fk[4] # "")
    /\ HasKey(mt.bones0, mt.ik[3], "stretch_length")
    /\ HasKey(mt.bones0, mt.fk[1], "stretch_length")
    => bones[mt.ik[3]].props["stretch_length"] = bones[mt.fk[1]].props["stretch_length"]

----------------------------------------------------------------------------
(* Properties of the snap operators *)

\* execute has been left, by a return or by an exception
Left == pc \in {"ex_done", "ex_raised"}

\* C21: execute keeps use_global_undo False from its first statements until
\* the snapping function has returned or raised, and leaves it with the
\* value it had when execute was called, whether the function returned or
\* raised; execute reports FINISHED when the function returned and reports
\* nothing when it raised.
C21_UndoRestoredOnEveryExit ==
    /\ pc \notin {"ex_call", "ex_done", "ex_raised"} => ~call.use_global_undo
    /\ Left => call.use_global_undo = call.undo0
    /\ pc = "ex_done" => call.result = "FINISHED"
    /\ pc = "ex_raised" => call.result # "FINISHED"

\* the arm operator has raised out of correct_rotation, which found no
\* bracket, with the preference set when execute was called
C21_Witness ==
    /\ pc = "ex_raised" /\ call.undo0 /\ call.use_global_undo
    /\ call.op = "ik2fk_arm" /\ cr.outcome = "TypeError" /\ call.result = ""

=============================================================================
